---------------------------- MODULE Spec2Model ----------------------------
(*
  Inventory API: the product table, the request schemas and the five
  handlers of app/api/products.py.

  A JSON value or a column value is an optional: Null is <<>> and a present
  value v is <<v>>.  A string is a sequence of characters, so that its length
  is what the schema's min_length / max_length read.  An integer of a request
  (a quantity, a path id) is a sign and a magnitude in 21-bit limbs, least
  significant first, so that 2^63 can be written and the 64-bit range of the
  database can be read off it.  A float (a price) is a whole number or one of
  the two infinities, which the JSON parser produces for a literal such as
  1e999.  A request body is a function from the keys present in the JSON
  object to their values.

  Handlers run in the server's thread pool, each request in its own session
  (get_session), so the statements of one handler are separate steps between
  which the statements of another may run: session.get, the clock read,
  session.commit and session.refresh each take effect on their own.
*)
EXTENDS Integers, Sequences, FiniteSets, Bags, TLC

VARIABLES
    products,   \* the product table: a set of rows
    clock,      \* the last value datetime.now(timezone.utc) returned
    inflight,   \* the requests inside a handler, each with its session (a bag)
    out,        \* the response sent by the last step, NoOut if it sent none
    nreq,       \* number of requests received
    deleted     \* history: the ids deleted and not assigned again since

vars == <<products, clock, inflight, out, nreq, deleted>>

-----------------------------------------------------------------------------
(* Bounds *)

MaxRequests == 3
MaxSessions == 2
MaxClock == 1

-----------------------------------------------------------------------------
(* Values *)

Null == <<>>
Some(v) == <<v>>
Str(n) == [i \in 1..n |-> "x"]

\* Python int: sign and magnitude, limbs of LimbBits bits; Int64Limbs limbs
\* hold 63 bits.
LimbBits == 21
Int64Limbs == 3
Num(n) == [neg |-> n < 0,
           mag |-> IF n = 0 THEN <<>> ELSE <<IF n < 0 THEN -n ELSE n>>]
TwoTo63 == [neg |-> FALSE, mag |-> <<0, 0, 0, 1>>]
IsNegative(i) == i.neg
\* The value of an integer of at most one limb.
Small(i) == IF i.mag = <<>> THEN 0 ELSE IF i.neg THEN -i.mag[1] ELSE i.mag[1]

\* Python float: a finite number, or an infinity with its sign in num.
Float(n) == [inf |-> FALSE, num |-> n]
Infinity == [inf |-> TRUE, num |-> 1]
NegInfinity == [inf |-> TRUE, num |-> -1]
IsFinite(x) == ~x.inf

\* sqlite3 binds a Python int as a 64-bit signed INTEGER or raises
\* OverflowError.
FitsInt64(i) == Len(i.mag) <= Int64Limbs \/ (i.neg /\ i.mag = TwoTo63.mag)

NameMaxLen == 100
DescMaxLen == 500

Fields == {"name", "description", "quantity", "price"}
NotNullColumns == {"name", "quantity", "price"}
QuantityDefault == 0

NoId == 0
NoBody == [k \in {} |-> Null]
NoRow == [id |-> NoId]

-----------------------------------------------------------------------------
(* app/models/product.py: the schemas *)

NameOk(v) == v # Null /\ Len(v[1]) >= 1 /\ Len(v[1]) <= NameMaxLen
DescriptionOk(v) == IF v = Null THEN TRUE ELSE Len(v[1]) <= DescMaxLen
QuantityOk(v) == v # Null /\ ~IsNegative(v[1])
PriceOk(v) == v # Null /\ v[1].num > 0

\* ProductCreate: name and price are required, quantity and description have
\* defaults; a key the schema does not know is ignored.
ProductCreateValid(body) ==
    /\ "name" \in DOMAIN body /\ NameOk(body["name"])
    /\ "price" \in DOMAIN body /\ PriceOk(body["price"])
    /\ "quantity" \in DOMAIN body => QuantityOk(body["quantity"])
    /\ "description" \in DOMAIN body => DescriptionOk(body["description"])

\* ProductUpdate: every field is Optional with default None, so a key may be
\* absent or null; a present value obeys the field's constraint.
ProductUpdateValid(body) ==
    /\ "name" \in DOMAIN body => (body["name"] = Null \/ NameOk(body["name"]))
    /\ "description" \in DOMAIN body => DescriptionOk(body["description"])
    /\ "quantity" \in DOMAIN body =>
           (body["quantity"] = Null \/ QuantityOk(body["quantity"]))
    /\ "price" \in DOMAIN body => (body["price"] = Null \/ PriceOk(body["price"]))

\* Faulty variant: the create schema has an id field.
CreateDumpWithId(body) ==
    [f \in Fields \cup (DOMAIN body \cap {"id"}) |->
        IF f \in DOMAIN body THEN body[f]
        ELSE IF f = "quantity" THEN Some(Num(QuantityDefault))
        ELSE Null]

\* product.model_dump() of a ProductCreate: the four schema fields, defaults
\* filled in.
CreateDump(body) ==
    [f \in Fields |->
        IF f \in DOMAIN body THEN body[f]
        ELSE IF f = "quantity" THEN Some(Num(QuantityDefault))
        ELSE Null]

\* product_update.model_dump(exclude_unset=True): the schema fields the body
\* sets, a field set to null included.
UpdateDump(body) == [f \in DOMAIN body \cap Fields |-> body[f]]

\* Product(**data): id is None unless the data carry one, and the two
\* timestamps come from their default factories, created_at first.
NewProduct(data, t1, t2) ==
    [id |-> IF "id" \in DOMAIN data /\ data["id"] # Null THEN Small(data["id"][1])
            ELSE NoId,
     name |-> data["name"], description |-> data["description"],
     quantity |-> data["quantity"], price |-> data["price"],
     created_at |-> t1, updated_at |-> t2]

-----------------------------------------------------------------------------
(* The table and the session *)

Ids(table) == {r.id : r \in table}

MaxOf(S) == CHOOSE m \in S : \A n \in S : n <= m

\* INTEGER PRIMARY KEY of the default SQLite engine: the largest id in the
\* table plus one.
NextId(table) == IF table = {} THEN 1 ELSE MaxOf(Ids(table)) + 1

\* The row with primary key id, NoRow if there is none.
RowOf(table, id) ==
    IF id \in Ids(table) THEN CHOOSE r \in table : r.id = id ELSE NoRow

\* SELECT ... WHERE id = pid for an integer pid of a request.
RowWhere(table, pid) ==
    IF \E r \in table : Num(r.id) = pid
    THEN CHOOSE r \in table : Num(r.id) = pid
    ELSE NoRow

\* session.get(Product, product_id): a SELECT by primary key; an id outside
\* the 64-bit range cannot be bound.
SessionGet(table, pid) ==
    IF ~FitsInt64(pid) THEN [error |-> "OverflowError", row |-> NoRow]
    ELSE [error |-> "none", row |-> RowWhere(table, pid)]

\* datetime.now(timezone.utc) read after the clock showed t: the same instant
\* or a later one.
Now(t) == IF t < MaxClock THEN {t, t + 1} ELSE {t}

\* for field, value in update_data.items(): setattr(product, field, value)
\* product.updated_at = datetime.now(timezone.utc)
SetAttrs(row, data, t) ==
    [c \in DOMAIN row |->
        IF c \in DOMAIN data THEN data[c]
        ELSE IF c = "updated_at" THEN t
        ELSE row[c]]

\* The columns of obj the session sees as changed since it loaded the row.
\* updated_at is always one: the handler assigns an aware datetime and the
\* column loads a naive one, which never compare equal.
Dirty(loaded, obj) == {c \in DOMAIN obj : obj[c] # loaded[c]} \cup {"updated_at"}

\* A quantity that sqlite3 cannot bind.
Overflows(obj) == obj.quantity # Null /\ ~FitsInt64(obj.quantity[1])

\* Faulty variant: the columns accept NULL.
CommitUpdateNullable(table, loaded, obj) ==
    LET dirty == Dirty(loaded, obj)
        cur == RowOf(table, loaded.id)
    IN  IF "quantity" \in dirty /\ Overflows(obj)
        THEN [error |-> "OverflowError", table |-> table]
        ELSE IF cur = NoRow THEN [error |-> "StaleDataError", table |-> table]
        ELSE [error |-> "none",
              table |-> (table \ {cur}) \cup
                        {[c \in DOMAIN cur |-> IF c \in dirty THEN obj[c] ELSE cur[c]]}]

\* session.add(product); session.commit() of a changed object: an UPDATE of
\* the changed columns WHERE id = loaded.id.  A quantity outside the 64-bit
\* range is an OverflowError, no row matched a StaleDataError, NULL into a
\* NOT NULL column an IntegrityError; in each case nothing is written.
CommitUpdate(table, loaded, obj) ==
    LET dirty == Dirty(loaded, obj)
        cur == RowOf(table, loaded.id)
    IN  IF "quantity" \in dirty /\ Overflows(obj)
        THEN [error |-> "OverflowError", table |-> table]
        ELSE IF cur = NoRow THEN [error |-> "StaleDataError", table |-> table]
        ELSE IF \E c \in dirty \cap NotNullColumns : obj[c] = Null
             THEN [error |-> "IntegrityError", table |-> table]
        ELSE [error |-> "none",
              table |-> (table \ {cur}) \cup
                        {[c \in DOMAIN cur |-> IF c \in dirty THEN obj[c] ELSE cur[c]]}]

\* Faulty variant: a DELETE without its WHERE clause.
CommitDeleteAll(table, loaded) == {}

\* session.delete(product); session.commit(): DELETE WHERE id = loaded.id.
\* A DELETE that matches no row only warns.
CommitDelete(table, loaded) == {r \in table : r.id # loaded.id}

\* session.add(db_product); session.commit(): the INSERT assigns the id of an
\* object that has none.  A quantity outside the 64-bit range is an
\* OverflowError, an id already in the table an IntegrityError.
CommitInsert(table, obj) ==
    LET id == IF obj.id = NoId THEN NextId(table) ELSE obj.id
    IN  IF Overflows(obj) THEN [error |-> "OverflowError", table |-> table, id |-> NoId]
        ELSE IF id \in Ids(table)
             THEN [error |-> "IntegrityError", table |-> table, id |-> NoId]
        ELSE [error |-> "none", id |-> id,
              table |-> table \cup {[obj EXCEPT !.id = id]}]

RECURSIVE SortedById(_)
SortedById(table) ==
    IF table = {} THEN <<>>
    ELSE LET last == RowOf(table, MaxOf(Ids(table)))
         IN  Append(SortedById(table \ {last}), last)

\* session.exec(select(Product)).all()
SelectAll(table) == SortedById(table)

\* A response: the request it answers, the status code and the body.
Response(op, pid, body, status, content) ==
    [request |-> [op |-> op, id |-> pid, body |-> body],
     status |-> status, body |-> content]

NoOut == Response("none", Num(NoId), NoBody, 0, Null)
NotFound(pid) == <<"Product with id", pid, "not found">>
ValidationError == <<"validation error">>
InternalServerError == <<"Internal Server Error">>

\* A float that JSON can carry: the response is rendered with
\* allow_nan=False, which raises ValueError on an infinity.
Renderable(x) == IF x = Null THEN TRUE ELSE IsFinite(x[1])

\* response_model=ProductRead rendered as JSON: the status and the content,
\* or 500 when a price among the rows returned cannot be rendered.
Render(status, content, rows) ==
    IF \A r \in rows : Renderable(r.price)
    THEN [status |-> status, body |-> content]
    ELSE [status |-> 500, body |-> InternalServerError]

\* The inputs a 422 detail echoes: the value of each field that fails its
\* constraint, and the whole body for a required field that is missing.
EchoesPrice(op, body) ==
    /\ "price" \in DOMAIN body
    /\ \/ body["price"] # Null /\ ~PriceOk(body["price"])
       \/ op = "create" /\ "name" \notin DOMAIN body

\* The 422 of a body the schema rejects, rendered as JSON: 500 when the
\* detail echoes a price that cannot be rendered.
RenderErrors(op, body) ==
    IF EchoesPrice(op, body) /\ ~Renderable(body["price"])
    THEN [status |-> 500, body |-> InternalServerError]
    ELSE [status |-> 422, body |-> ValidationError]

-----------------------------------------------------------------------------
(* Request inputs *)

A == <<"a">>
B == <<"b">>
C == <<"c">>

CreateBodies ==
    { [name |-> Some(A), price |-> Some(Float(2)), id |-> Some(Num(2))],
      [name |-> Some(A), description |-> Some(<<"d">>),
       quantity |-> Some(TwoTo63), price |-> Some(Float(2))],
      [name |-> Some(<<>>), price |-> Some(Float(2))],
      [name |-> Some(Str(NameMaxLen + 1)), price |-> Some(Float(2))],
      [name |-> Some(A), price |-> Some(Float(0))],
      [name |-> Some(A), quantity |-> Some(Num(-1)), price |-> Some(Float(2))],
      [name |-> Some(A)],
      [name |-> Some(A), price |-> Some(NegInfinity)],
      [price |-> Some(Infinity)] }

UpdateBodies ==
    { [name |-> Some(B)], [name |-> Null],
      [quantity |-> Some(TwoTo63)],
      [price |-> Some(Infinity)],
      [id |-> Some(Num(2)), name |-> Some(C), quantity |-> Some(Num(7))],
      [name |-> Some(<<>>)], [quantity |-> Some(Num(-1))],
      [price |-> Some(NegInfinity)] }

\* Path ids: a small one, 2^21 + 1 (two limbs, first limb 1) and 2^63.
PathIds == {Num(1), [neg |-> FALSE, mag |-> <<1, 1>>], TwoTo63}

-----------------------------------------------------------------------------
(* The handlers *)

\* create_db_and_tables() on a new database: the table is empty and no
\* request is being handled.
Init ==
    /\ products = {}
    /\ clock = 0
    /\ inflight = EmptyBag
    /\ out = NoOut
    /\ nreq = 0
    /\ deleted = {}

\* A request in a handler: what it asked, the statement it is at, the row its
\* session loaded and the object it will write.
Session(op, pid, body, pc, loaded, obj) ==
    [op |-> op, id |-> pid, body |-> body, pc |-> pc, loaded |-> loaded, obj |-> obj]

Sessions == BagToSet(inflight)

\* A request enters a handler that will write: Depends(get_session) opens
\* its session.
Enter(s) ==
    /\ nreq < MaxRequests
    /\ BagCardinality(inflight) < MaxSessions
    /\ nreq' = nreq + 1
    /\ inflight' = inflight (+) SetToBag({s})

\* The handler of s goes on to its next statement.
Continue(s, t) == inflight' = (inflight (-) SetToBag({s})) (+) SetToBag({t})

\* The handler of s returns or raises: the response is sent and the session
\* closed.
Leave(s, status, content) ==
    /\ inflight' = inflight (-) SetToBag({s})
    /\ out' = Response(s.op, s.id, s.body, status, content)

\* A request answered by the statement it arrives at.
Answer(op, pid, body, status, content) ==
    /\ nreq < MaxRequests
    /\ nreq' = nreq + 1
    /\ out' = Response(op, pid, body, status, content)
    /\ UNCHANGED inflight

\* POST and PUT: a body the schema rejects is answered 422 before the handler
\* is called.
Reject(op, pid, body) ==
    /\ \/ op = "create" /\ pid = Num(NoId) /\ ~ProductCreateValid(body)
       \/ op = "update" /\ pid \in PathIds /\ ~ProductUpdateValid(body)
    /\ LET r == RenderErrors(op, body)
       IN  Answer(op, pid, body, r.status, r.body)
    /\ UNCHANGED <<products, clock, deleted>>

\* POST /products/: db_product = Product(**product.model_dump())
CreateProduct(body) ==
    /\ ProductCreateValid(body)
    /\ \E t1 \in Now(clock) : \E t2 \in Now(t1) :
        /\ clock' = t2
        /\ Enter(Session("create", Num(NoId), body, "commit", NoRow,
                         NewProduct(CreateDump(body), t1, t2)))
    /\ out' = NoOut
    /\ UNCHANGED <<products, deleted>>

\* session.add(db_product); session.commit()
CreateCommit(s) ==
    /\ s.op = "create" /\ s.pc = "commit"
    /\ LET done == CommitInsert(products, s.obj)
       IN  /\ products' = done.table
           /\ IF done.error # "none"
              THEN /\ Leave(s, 500, InternalServerError)
                   /\ UNCHANGED deleted
              ELSE /\ Continue(s, [s EXCEPT !.pc = "refresh", !.obj.id = done.id])
                   /\ deleted' = deleted \ {done.id}
                   /\ out' = NoOut
    /\ UNCHANGED <<clock, nreq>>

\* session.refresh(db_product); return db_product.  A row that is gone cannot
\* be refreshed: InvalidRequestError.
CreateRefresh(s) ==
    /\ s.op = "create" /\ s.pc = "refresh"
    /\ LET row == RowOf(products, s.obj.id)
           r == Render(201, row, {row})
       IN  IF row = NoRow THEN Leave(s, 500, InternalServerError)
           ELSE Leave(s, r.status, r.body)
    /\ UNCHANGED <<products, clock, nreq, deleted>>

\* GET /products/
GetProducts ==
    /\ LET rows == SelectAll(products)
           r == Render(200, rows, {rows[i] : i \in DOMAIN rows})
       IN  Answer("list", Num(NoId), NoBody, r.status, r.body)
    /\ UNCHANGED <<products, clock, deleted>>

\* GET /products/{product_id}
GetProduct(pid) ==
    /\ LET got == SessionGet(products, pid)
       IN  IF got.error # "none" THEN Answer("get", pid, NoBody, 500, InternalServerError)
           ELSE IF got.row = NoRow THEN Answer("get", pid, NoBody, 404, NotFound(pid))
           ELSE LET r == Render(200, got.row, {got.row})
                IN  Answer("get", pid, NoBody, r.status, r.body)
    /\ UNCHANGED <<products, clock, deleted>>

\* PUT /products/{product_id}: product = session.get(Product, product_id) and
\* the 404
UpdateProduct(pid, body) ==
    /\ ProductUpdateValid(body)
    /\ LET got == SessionGet(products, pid)
       IN  IF got.error # "none"
           THEN Answer("update", pid, body, 500, InternalServerError)
           ELSE IF got.row = NoRow
           THEN Answer("update", pid, body, 404, NotFound(pid))
           ELSE /\ Enter(Session("update", pid, body, "setattr", got.row, got.row))
                /\ out' = NoOut
    /\ UNCHANGED <<products, clock, deleted>>

\* update_data = product_update.model_dump(exclude_unset=True), the setattr
\* loop and product.updated_at = datetime.now(timezone.utc)
UpdateSetAttrs(s) ==
    /\ s.op = "update" /\ s.pc = "setattr"
    /\ \E t \in Now(clock) :
        /\ clock' = t
        /\ Continue(s, [s EXCEPT !.pc = "commit",
                                 !.obj = SetAttrs(s.loaded, UpdateDump(s.body), t)])
    /\ out' = NoOut
    /\ UNCHANGED <<products, nreq, deleted>>

\* session.add(product); session.commit()
UpdateCommit(s) ==
    /\ s.op = "update" /\ s.pc = "commit"
    /\ LET done == CommitUpdate(products, s.loaded, s.obj)
       IN  /\ products' = done.table
           /\ IF done.error # "none" THEN Leave(s, 500, InternalServerError)
              ELSE /\ Continue(s, [s EXCEPT !.pc = "refresh"])
                   /\ out' = NoOut
    /\ UNCHANGED <<clock, nreq, deleted>>

\* session.refresh(product); return product
UpdateRefresh(s) ==
    /\ s.op = "update" /\ s.pc = "refresh"
    /\ LET row == RowOf(products, s.loaded.id)
           r == Render(200, row, {row})
       IN  IF row = NoRow THEN Leave(s, 500, InternalServerError)
           ELSE Leave(s, r.status, r.body)
    /\ UNCHANGED <<products, clock, nreq, deleted>>

\* DELETE /products/{product_id}: product = session.get(Product, product_id)
\* and the 404
DeleteProduct(pid) ==
    /\ LET got == SessionGet(products, pid)
       IN  IF got.error # "none"
           THEN Answer("delete", pid, NoBody, 500, InternalServerError)
           ELSE IF got.row = NoRow
           THEN Answer("delete", pid, NoBody, 404, NotFound(pid))
           ELSE /\ Enter(Session("delete", pid, NoBody, "commit", got.row, got.row))
                /\ out' = NoOut
    /\ UNCHANGED <<products, clock, deleted>>

\* session.delete(product); session.commit(); return None
DeleteCommit(s) ==
    /\ s.op = "delete" /\ s.pc = "commit"
    /\ products' = CommitDelete(products, s.loaded)
    /\ deleted' = deleted \cup {s.loaded.id}
    /\ Leave(s, 204, Null)
    /\ UNCHANGED <<clock, nreq>>

Next ==
    \/ \E body \in CreateBodies : Reject("create", Num(NoId), body)
    \/ \E pid \in PathIds, body \in UpdateBodies : Reject("update", pid, body)
    \/ \E body \in CreateBodies : CreateProduct(body)
    \/ \E s \in Sessions : CreateCommit(s)
    \/ \E s \in Sessions : CreateRefresh(s)
    \/ GetProducts
    \/ \E pid \in PathIds : GetProduct(pid)
    \/ \E pid \in PathIds, body \in UpdateBodies : UpdateProduct(pid, body)
    \/ \E s \in Sessions : UpdateSetAttrs(s)
    \/ \E s \in Sessions : UpdateCommit(s)
    \/ \E s \in Sessions : UpdateRefresh(s)
    \/ \E pid \in PathIds : DeleteProduct(pid)
    \/ \E s \in Sessions : DeleteCommit(s)

Spec == Init /\ [][Next]_vars

-----------------------------------------------------------------------------
(* Properties *)

\* The step receives a request.
Received == nreq' = nreq + 1
\* The step sends a response to a request of one of the operations ops.
Sends(ops) == out' # NoOut /\ out'.request.op \in ops
\* The id of the request answered in state-variable value o, as a stored id.
IdOf(o) == IF Len(o.request.id.mag) <= 1 THEN Small(o.request.id) ELSE NoId

RowValid(r) ==
    /\ r.name # Null /\ Len(r.name[1]) >= 1 /\ Len(r.name[1]) <= NameMaxLen
    /\ r.quantity # Null /\ ~r.quantity[1].neg
    /\ r.price # Null /\ r.price[1].num > 0

\* C1: in every reachable state every stored product has a name of 1 to 100
\* characters, a quantity >= 0 and a price > 0, whatever creates, updates
\* (explicit nulls included) and deletes were handled.
C1_StoredProductsValid == \A r \in products : RowValid(r)

\* An update that sets the name of a stored product to null was answered 500.
C1_Witness ==
    /\ out.request.op = "update"
    /\ out.request.body = [name |-> Null]
    /\ out.status = 500
    /\ IdOf(out) \in Ids(products)

\* C2: an update answered 200 carries the values its body gave, and the
\* response is the product as stored.
C2_UpdateFrame ==
    [][Sends({"update"}) /\ out'.status = 200 =>
        /\ \A f \in DOMAIN out'.request.body \cap Fields :
               out'.body[f] = out'.request.body[f]
        /\ out'.body.id = IdOf(out')
        /\ out'.body \in products']_vars

\* C3: GET, PUT with a valid body and DELETE on an id that is not in the
\* store are answered 404 with the not-found detail, the store unchanged.
C3_NotFound ==
    [][/\ Received
       /\ Sends({"get", "update", "delete"})
       /\ out'.request.op = "update" => ProductUpdateValid(out'.request.body)
       /\ ~\E r \in products : Num(r.id) = out'.request.id
       => /\ out'.status = 404
          /\ out'.body = NotFound(out'.request.id)
          /\ products' = products]_vars

BadValue(body) ==
    \/ "name" \in DOMAIN body /\ body["name"] = Some(<<>>)
    \/ "price" \in DOMAIN body /\ body["price"] # Null /\ body["price"][1].num <= 0
    \/ "quantity" \in DOMAIN body /\ body["quantity"] # Null
                                  /\ body["quantity"][1].neg
LacksRequired(body) == "name" \notin DOMAIN body \/ "price" \notin DOMAIN body

\* C4: a create or update whose body has an empty name, a price <= 0 or a
\* quantity < 0, or a create without name or price, is answered 422 by the
\* step that receives it, which leaves the table unchanged, opens no session
\* and does not look the id up.
C4_RejectedBeforeStorage ==
    [][/\ out' # NoOut
       /\ \/ out'.request.op = "create"
             /\ (BadValue(out'.request.body) \/ LacksRequired(out'.request.body))
          \/ out'.request.op = "update" /\ BadValue(out'.request.body)
       => /\ out'.status = 422
          /\ Received
          /\ UNCHANGED <<products, clock, inflight, deleted>>]_vars

\* C5: a create with valid fields is answered 201 with the request's values
\* (defaults for the omitted ones) and a generated id, and that product is in
\* the store, the others unchanged.
C5_Create ==
    [][Sends({"create"}) /\ ProductCreateValid(out'.request.body) =>
        /\ out'.status = 201
        /\ \A f \in DOMAIN out'.request.body \cap Fields :
               out'.body[f] = out'.request.body[f]
        /\ "quantity" \notin DOMAIN out'.request.body =>
               out'.body.quantity = Some(Num(QuantityDefault))
        /\ "description" \notin DOMAIN out'.request.body =>
               out'.body.description = Null
        /\ out'.body \in products']_vars

\* A DELETE that found its id in the store is answered 204 without content
\* and removes the product with that id and no other; a DELETE answered by
\* the step that receives it was for an id not in the store.
DeleteRemovesExactlyThat ==
    /\ Sends({"delete"}) /\ ~Received =>
         /\ out'.status = 204
         /\ out'.body = Null
         /\ products' = {r \in products : r.id # IdOf(out')}
    /\ Sends({"delete"}) /\ Received => IdOf(out') \notin Ids(products)

\* No request received for an id deleted and not assigned again enters a
\* handler's write path, and the history holds no stored id.
DeletedStaysDeleted ==
    /\ Received =>
         \A s \in BagToSet(inflight') :
             CopiesIn(s, inflight') > CopiesIn(s, inflight) /\ s.op # "create" =>
                 ~\E d \in deleted : Num(d) = s.id
    /\ deleted' \cap Ids(products') = {}

\* The step answers a GET, PUT or DELETE it receives for an id deleted and
\* not assigned again.
FollowsDelete ==
    /\ Received
    /\ Sends({"get", "update", "delete"})
    /\ IdOf(out') \in deleted

\* C6, whatever the body of the PUT: a DELETE that found its id in the store
\* is answered 204 without content and removes that product and no other;
\* from then on, until a create is assigned the id, every GET, PUT or DELETE
\* received for it is answered 404 and changes nothing.
C6_AnyFollowingRequest ==
    [][/\ DeleteRemovesExactlyThat
       /\ FollowsDelete => out'.status = 404 /\ products' = products
       /\ DeletedStaysDeleted]_vars

\* C6, for a PUT whose body the schema accepts: a DELETE that found its id in
\* the store is answered 204 without content and removes that product and no
\* other; from then on, until a create is assigned the id, a GET, a DELETE or
\* a PUT with a body ProductUpdate accepts received for it is answered 404
\* and changes nothing.
C6_Delete ==
    [][/\ DeleteRemovesExactlyThat
       /\ FollowsDelete /\ (out'.request.op = "update" =>
                                ProductUpdateValid(out'.request.body))
            => out'.status = 404 /\ products' = products
       /\ DeletedStaysDeleted]_vars

\* A PUT with a valid body for an id that was deleted was answered 404.
C6_Witness ==
    /\ out.request.op = "update"
    /\ ProductUpdateValid(out.request.body)
    /\ out.status = 404
    /\ IdOf(out) \in deleted

\* C7: no two stored products share an id; a step that adds a product gives
\* it the id the table determines, whatever the create body says, and no
\* other step changes which ids are stored except by removing products.
C7_IdAssignedOnce ==
    [][/\ Cardinality(Ids(products')) = Cardinality(products')
       /\ \/ Ids(products') = Ids(products)
          \/ /\ Ids(products') = Ids(products) \cup {NextId(products)}
             /\ products \subseteq products'
          \/ /\ Ids(products') \subseteq Ids(products)
             /\ products' \subseteq products]_vars

\* A create whose body named an id was answered 201 with another id.
C7_Witness ==
    /\ out.request.op = "create"
    /\ out.status = 201
    /\ "id" \in DOMAIN out.request.body
    /\ out.body.id # Small(out.request.body["id"][1])

\* C8: created_at of a stored product never changes, updated_at is never
\* before created_at and never decreases.
C8_TimestampsMonotonic ==
    [][/\ \A r \in products' : r.updated_at >= r.created_at
       /\ \A r \in products : \A q \in products' :
            q.id = r.id => /\ q.created_at = r.created_at
                           /\ q.updated_at >= r.updated_at]_vars

\* C9: GET /products/ is answered 200 with exactly the stored products, each
\* once, and leaves the store unchanged.
C9_List ==
    [][Sends({"list"}) =>
        /\ out'.status = 200
        /\ {out'.body[i] : i \in DOMAIN out'.body} = products
        /\ Len(out'.body) = Cardinality(products)
        /\ products' = products]_vars

\* A body whose values every column, the database's integer range and the
\* JSON rendering accept.
Storable(body) ==
    \A f \in DOMAIN body \cap Fields :
        /\ body[f] # Null
        /\ f = "quantity" => FitsInt64(body[f][1])
        /\ f = "price" => IsFinite(body[f][1])

\* Every stored price can be rendered.
AllRenderable(table) == \A r \in table : IsFinite(r.price[1])

\* C10: while every stored price is finite, a PUT or DELETE with an id and
\* values the schema, the database and the JSON rendering accept ends in
\* 200, 204 or 404, and a DELETE answered 204 removed the product, as in a
\* serial order of the requests.
C10_Atomic ==
    [][/\ Sends({"update", "delete"})
       /\ FitsInt64(out'.request.id)
       /\ out'.request.op = "update" => ProductUpdateValid(out'.request.body)
       /\ Storable(out'.request.body)
       /\ AllRenderable(products) /\ AllRenderable(products')
       => /\ out'.status \in {200, 204, 404}
          /\ out'.status = 204 => products' # products]_vars

=============================================================================
